---- MODULE Spec2Model ----
(***************************************************************************)
(* smriprep.interfaces.freesurfer: the resume logic of ReconAll.cmdline    *)
(* and the output listing of CALabel._list_outputs.                        *)
(*                                                                         *)
(* Command lines, flags and paths are TLA+ strings; Python's substring     *)
(* test (`x in cmd`), str.startswith, str.join, os.path.join and           *)
(* os.path.abspath are computed character by character.                    *)
(***************************************************************************)
EXTENDS Integers, Sequences, FiniteSets, TLC

(* ------------------------------ bounds -------------------------------- *)

\* Modification times range over 0..MaxTime; 0 stands for "no such file".
MaxTime == 2
\* Longest explicit step list (inputs.steps) that is enumerated.
MaxSteps == 2

(* ------------------------- Python string helpers ---------------------- *)

\* traits' Undefined
Undefined == "<undefined>"

isdefined(v) == v # Undefined

\* Python `sub in s` on strings
Contains(sub, s) ==
    \E i \in 1..(Len(s) - Len(sub) + 1) : SubSeq(s, i, i + Len(sub) - 1) = sub

\* Python s.startswith(p)
startswith(s, p) == Len(s) >= Len(p) /\ SubSeq(s, 1, Len(p)) = p

\* Python s.endswith(p)
endswith(s, p) == Len(s) >= Len(p) /\ SubSeq(s, Len(s) - Len(p) + 1, Len(s)) = p

\* Python sep.join(items)
RECURSIVE join(_, _)
join(sep, items) ==
    IF items = <<>> THEN ""
    ELSE IF Len(items) = 1 THEN items[1]
    ELSE items[1] \o sep \o join(sep, Tail(items))

\* Python `x in list`
InList(x, list) == \E i \in 1..Len(list) : list[i] = x

\* Python s.replace(old, new), old non-empty
RECURSIVE replace(_, _, _)
replace(s, old, new) ==
    IF Len(s) < Len(old) THEN s
    ELSE IF startswith(s, old)
         THEN new \o replace(SubSeq(s, Len(old) + 1, Len(s)), old, new)
         ELSE SubSeq(s, 1, 1) \o replace(SubSeq(s, 2, Len(s)), old, new)

\* os.path.join(a, b) (posixpath)
path_join(a, b) ==
    IF startswith(b, "/") THEN b
    ELSE IF a = "" \/ endswith(a, "/") THEN a \o b
    ELSE a \o "/" \o b

(* ----------------------------- input traits --------------------------- *)

\* _ReconAllInputSpec.directive: the values of the Enum
Directives ==
    { "all", "autorecon1",
      "autorecon2", "autorecon2-volonly", "autorecon2-perhemi",
      "autorecon2-inflate1", "autorecon2-cp", "autorecon2-wm",
      "autorecon3", "autorecon3-T2pial",
      "autorecon-pial", "autorecon-hemi",
      "localGI", "qcache" }

\* _ReconAllInputSpec.steps: values of the Enum that the model enumerates
\* (one or two of each group; "careginv" is a FreeSurfer 5.3 step)
StepNames ==
    { "normalization",
      "careginv",
      "inflate1",
      "apas2aseg" }

Hemis == { "lh", "rh" }

(* ------------- step tables inherited from nipype's ReconAll ----------- *)

\* one (step, outfiles, infiles) tuple of a step table
Entry(step, outfiles, infiles) ==
    [step |-> step, outfiles |-> outfiles, infiles |-> infiles]

\* the right-hemisphere copy of a left-hemisphere table
RhSteps(lh_steps) ==
    [i \in 1..Len(lh_steps) |->
        Entry(lh_steps[i].step,
              [j \in 1..Len(lh_steps[i].outfiles) |->
                  replace(lh_steps[i].outfiles[j], "lh", "rh")],
              lh_steps[i].infiles)]

_autorecon1_steps ==
    << Entry("normalization", <<"mri/T1.mgz">>, <<>>),
       Entry("skullstrip", <<"mri/brainmask.mgz">>, <<>>) >>

_autorecon2_volonly_steps ==
    << Entry("normalization2", <<"mri/brain.mgz">>, <<>>) >>

_autorecon2_lh_steps ==
    << Entry("inflate1", <<"surf/lh.inflated.nofix">>, <<>>) >>

_autorecon2_rh_steps == RhSteps(_autorecon2_lh_steps)

_autorecon2_perhemi_steps == _autorecon2_lh_steps \o _autorecon2_rh_steps

_autorecon2_steps == _autorecon2_volonly_steps \o _autorecon2_perhemi_steps

_autorecon3_lh_steps == << >>

_autorecon3_rh_steps == RhSteps(_autorecon3_lh_steps)

_autorecon3_added_steps ==
    << Entry("apas2aseg", <<"mri/aseg.mgz">>, <<"mri/aparc+aseg.mgz">>) >>

_autorecon3_steps ==
    _autorecon3_lh_steps \o _autorecon3_rh_steps \o _autorecon3_added_steps

_autorecon_lh_steps == _autorecon2_lh_steps \o _autorecon3_lh_steps

_autorecon_rh_steps == _autorecon2_rh_steps \o _autorecon3_rh_steps

\* the master step list
_steps == _autorecon1_steps \o _autorecon2_steps \o _autorecon3_steps

\* the step names of a step sequence, in order
Names(seq) == [i \in 1..Len(seq) |-> seq[i].step]

(* ------------------------------- state -------------------------------- *)

VARIABLES
    iface,      \* the interface whose method is called: "ReconAll" or "CALabel"
    inputs,     \* self.inputs: the traits that the two methods read
    force_run,  \* ReconAll.force_run
    mtime,      \* the subject directory: path -> modification time, 0 = missing
    mri_dir,    \* whether <subjects_dir>/<subject_id>/mri is a directory
    cwd,        \* os.getcwd()
    pc,         \* "call" before the method runs, then "done" or "raised"
    cmd,        \* cmdline's local cmd after line 127 (the base command line)
    steps,      \* cmdline's local steps (the resolved step sequence)
    no_run,     \* cmdline's local no_run
    flags,      \* cmdline's local flags
    decided,    \* per entry of steps, the branch of the loop body it took
    ret,        \* cmdline's return value
    outputs     \* _list_outputs' return value

vars == << iface, inputs, force_run, mtime, mri_dir, cwd, pc, cmd, steps,
           no_run, flags, decided, ret, outputs >>

(* ------------------------------ ReconAll ------------------------------ *)

subjects_dir == "/subjects"

subject_id == "sub01"

\* the files the step tables name, under <subjects_dir>/<subject_id>/
RECURSIVE TableFiles(_)
TableFiles(table) ==
    IF table = <<>> THEN {}
    ELSE { Head(table).outfiles[i] : i \in 1..Len(Head(table).outfiles) }
         \cup { Head(table).infiles[i] : i \in 1..Len(Head(table).infiles) }
         \cup TableFiles(Tail(table))

subj_dir == path_join(subjects_dir, subject_id)

Files == { path_join(subj_dir, f) : f \in TableFiles(_steps) }

\* os.path.exists
exists(disk, f) == disk[f] > 0

\* os.path.getmtime raises OSError for a missing file
getmtime_raises(disk, fs) == \E i \in 1..Len(fs) : ~exists(disk, fs[i])

Min(S) == CHOOSE x \in S : \A y \in S : x <= y

Max(S) == CHOOSE x \in S : \A y \in S : x >= y

Times(disk, fs) == { disk[fs[i]] : i \in 1..Len(fs) }

\* nipype.utils.filemanip.check_depends raises: every target exists (so the
\* right operand of `and` is evaluated) and a dependency is missing
check_depends_raises(disk, targets, dependencies) ==
    /\ \A i \in 1..Len(targets) : exists(disk, targets[i])
    /\ getmtime_raises(disk, dependencies)

\* nipype.utils.filemanip.check_depends: all targets exist and are newer
\* than all dependencies
check_depends(disk, targets, dependencies) ==
    /\ \A i \in 1..Len(targets) : exists(disk, targets[i])
    /\ Min(Times(disk, targets)) > Max(Times(disk, dependencies) \cup {0})

\* [os.path.join(subj_dir, f) for f in files]
InSubjDir(files) == [i \in 1..Len(files) |-> path_join(subj_dir, files[i])]

\* fs.ReconAll._is_resuming: the subject's mri directory exists
_is_resuming(mriDir) == mriDir

\* CommandLine.cmdline: the executable, the positional directive flag
\* (argstr "-%s", position 0), then the other set inputs by trait name
BaseCmdline(inp) ==
    join(" ",
         <<"recon-all">>
         \o (IF isdefined(inp.directive) THEN <<"-" \o inp.directive>> ELSE <<>>)
         \o inp.flags
         \o (IF isdefined(inp.hemi) THEN <<"-hemi " \o inp.hemi>> ELSE <<>>)
         \o <<"-subjid " \o subject_id, "-sd " \o subjects_dir>>)

\* fs.ReconAll._prep_expert_file: " -expert <file>" when expert options are
\* set, "" otherwise
_prep_expert_file(inp) ==
    IF inp.expert THEN " -expert /work/expert.opts" ELSE ""

\* cmdline lines 123-127
Cmd(inp) == BaseCmdline(inp) \o _prep_expert_file(inp)

\* FilterSteps gone wrong: the requested order instead of the master order
RECURSIVE FilterSteps_RequestOrder(_, _)
FilterSteps_RequestOrder(table, wanted) ==
    IF wanted = <<>> THEN <<>>
    ELSE SelectSeq(table, LAMBDA e : e.step = Head(wanted))
         \o FilterSteps_RequestOrder(table, Tail(wanted))

\* [step for step in self._steps if step[0] in self.inputs.steps]
RECURSIVE FilterSteps(_, _)
FilterSteps(table, wanted) ==
    IF table = <<>> THEN <<>>
    ELSE IF InList(Head(table).step, wanted)
         THEN <<Head(table)>> \o FilterSteps(Tail(table), wanted)
         ELSE FilterSteps(Tail(table), wanted)

\* inputs.steps is a MultiObject: the empty list is Undefined
steps_defined(inp) == inp.steps # <<>>

\* SelectSteps gone wrong: the autorecon2 prefix is tested before the two
\* autorecon2 directives that have a table of their own
SelectSteps_PrefixFirst(inp) ==
    LET directive == inp.directive IN
    IF ~isdefined(directive) THEN
        IF steps_defined(inp) THEN FilterSteps(_steps, inp.steps) ELSE <<>>
    ELSE IF directive = "autorecon1" THEN _autorecon1_steps
    ELSE IF startswith(directive, "autorecon2") THEN
        IF isdefined(inp.hemi) THEN
            IF inp.hemi = "lh"
            THEN _autorecon2_volonly_steps \o _autorecon2_lh_steps
            ELSE _autorecon2_volonly_steps \o _autorecon2_rh_steps
        ELSE _autorecon2_steps
    ELSE IF directive = "autorecon2-volonly" THEN _autorecon2_volonly_steps
    ELSE IF directive = "autorecon2-perhemi" THEN _autorecon2_perhemi_steps
    ELSE IF directive = "autorecon-hemi" THEN
        IF inp.hemi = "lh" THEN _autorecon_lh_steps ELSE _autorecon_rh_steps
    ELSE IF directive = "autorecon3" THEN _autorecon3_steps
    ELSE _steps

\* SelectSteps gone wrong: without a directive and without steps, the
\* master step list instead of the empty list
SelectSteps_DefaultAll(inp) ==
    LET directive == inp.directive IN
    IF ~isdefined(directive) /\ steps_defined(inp)
    THEN FilterSteps(_steps, inp.steps)
    ELSE IF directive = "autorecon1" THEN _autorecon1_steps
    ELSE IF directive = "autorecon2-volonly" THEN _autorecon2_volonly_steps
    ELSE IF directive = "autorecon2-perhemi" THEN _autorecon2_perhemi_steps
    ELSE IF startswith(directive, "autorecon2") THEN
        IF isdefined(inp.hemi) THEN
            IF inp.hemi = "lh"
            THEN _autorecon2_volonly_steps \o _autorecon2_lh_steps
            ELSE _autorecon2_volonly_steps \o _autorecon2_rh_steps
        ELSE _autorecon2_steps
    ELSE IF directive = "autorecon-hemi" THEN
        IF inp.hemi = "lh" THEN _autorecon_lh_steps ELSE _autorecon_rh_steps
    ELSE IF directive = "autorecon3" THEN _autorecon3_steps
    ELSE _steps

\* cmdline lines 136-163: "Check only relevant steps"
SelectSteps(inp) ==
    LET directive == inp.directive IN
    IF ~isdefined(directive) THEN
        IF steps_defined(inp) THEN FilterSteps(_steps, inp.steps) ELSE <<>>
    ELSE IF directive = "autorecon1" THEN _autorecon1_steps
    ELSE IF directive = "autorecon2-volonly" THEN _autorecon2_volonly_steps
    ELSE IF directive = "autorecon2-perhemi" THEN _autorecon2_perhemi_steps
    ELSE IF startswith(directive, "autorecon2") THEN
        IF isdefined(inp.hemi) THEN
            IF inp.hemi = "lh"
            THEN _autorecon2_volonly_steps \o _autorecon2_lh_steps
            ELSE _autorecon2_volonly_steps \o _autorecon2_rh_steps
        ELSE _autorecon2_steps
    ELSE IF directive = "autorecon-hemi" THEN
        IF inp.hemi = "lh" THEN _autorecon_lh_steps ELSE _autorecon_rh_steps
    ELSE IF directive = "autorecon3" THEN _autorecon3_steps
    ELSE _steps

\* "-{}".format(step)
Flag(step) == "-" \o step

\* "-no{}".format(step)
NoFlag(step) == "-no" \o step

\* StaleFlags gone wrong: the force flag whatever the mode
StaleFlags_Always(inp, step) == <<Flag(step)>>

\* StaleFlags gone wrong: no force flag whatever the mode
StaleFlags_Never(inp, step) == <<>>

\* cmdline lines 183-184: the flag a stale step appends
StaleFlags(inp, step) ==
    IF steps_defined(inp) THEN <<Flag(step)>> ELSE <<>>

(* ------------------------- enumerated inputs -------------------------- *)

\* the elements of a list
Range(list) == { list[i] : i \in 1..Len(list) }

\* lists over S of length 0..n that name no element twice
RECURSIVE SeqsUpTo(_, _)
SeqsUpTo(S, n) ==
    IF n = 0 THEN { <<>> }
    ELSE SeqsUpTo(S, n - 1)
         \cup { Append(q, x) : q \in SeqsUpTo(S, n - 1), x \in S }

NoRepeat(list) == Cardinality(Range(list)) = Len(list)

\* inputs.steps: lists of step names
StepLists == { l \in SeqsUpTo(StepNames, MaxSteps) : NoRepeat(l) }

\* inputs.flags: no flag, or one per-step flag given by the user
UserFlags ==
    { <<>>, << Flag("normalization2") >>, << NoFlag("normalization2") >>,
      << NoFlag("normalization") >>, << NoFlag("inflate1") >> }

\* files whose time is compared with another file's time by some entry
RECURSIVE TimedFiles(_)
TimedFiles(table) ==
    IF table = <<>> THEN {}
    ELSE (IF Head(table).infiles = <<>> THEN {}
          ELSE { path_join(subj_dir, f) : f \in TableFiles(<<Head(table)>>) })
         \cup TimedFiles(Tail(table))

\* the subject directories: a file that is compared with no other file is
\* missing (0) or present (1)
DiskStates ==
    { d \in [Files -> 0..MaxTime] :
        \A f \in Files \ TimedFiles(_steps) : d[f] <= 1 }

\* the files of the model that lie in <subjects_dir>/<subject_id>/mri
MriFiles == { f \in Files : startswith(f, path_join(subj_dir, "mri") \o "/") }

\* the mri directory exists when a file in it does
MriDirs(disk) ==
    IF \E f \in MriFiles : exists(disk, f) THEN { TRUE } ELSE BOOLEAN

\* directive and steps are mutually exclusive (xor=["steps"], xor=["directive"]):
\* the traits refuse to set one while the other is defined
ReconAllInputs ==
    { i \in
        { [directive |-> d, steps |-> s, hemi |-> h, flags |-> f, expert |-> e,
           write_probs |-> Undefined, out_file |-> Undefined] :
            d \in Directives \cup {Undefined}, s \in StepLists,
            h \in Hemis \cup {Undefined}, f \in UserFlags, e \in BOOLEAN } :
        /\ ~(isdefined(i.directive) /\ steps_defined(i))
        \* enumerated: hemi with a directive, expert options without user flags
        /\ isdefined(i.hemi) => isdefined(i.directive)
        /\ i.expert => i.flags = <<>> }

NoDisk == [f \in Files |-> 0]

\* the per-step flags of the master step list
StepFlags ==
    UNION { { Flag(_steps[k].step), NoFlag(_steps[k].step) } :
                k \in 1..Len(_steps) }

\* `flag in cmd`, tabulated once for the command lines and step flags of the
\* model: the flags that occur as a substring of each command line
FlagsIn ==
    [ c \in { Cmd(i) : i \in ReconAllInputs } |->
        { f \in StepFlags : Contains(f, c) } ]

\* cmdline lines 170, 172: `noflag in cmd`, `flag in cmd`
InCmd(f, c) == f \in FlagsIn[c]

\* Decide gone wrong: the result of check_depends is taken the wrong way round
Decide_Inverted(c, disk, entry) ==
    IF InCmd(NoFlag(entry.step), c) THEN "skip"
    ELSE IF InCmd(Flag(entry.step), c) THEN "forced"
    ELSE IF check_depends_raises(disk, InSubjDir(entry.outfiles),
                                 InSubjDir(entry.infiles)) THEN "raise"
    ELSE IF check_depends(disk, InSubjDir(entry.outfiles),
                          InSubjDir(entry.infiles)) THEN "stale"
    ELSE "fresh"

\* Decide gone wrong: a -no<step> flag of the base command line is not
\* looked for
Decide_NoSkip(c, disk, entry) ==
    IF InCmd(Flag(entry.step), c) THEN "forced"
    ELSE IF check_depends_raises(disk, InSubjDir(entry.outfiles),
                                 InSubjDir(entry.infiles)) THEN "raise"
    ELSE IF check_depends(disk, InSubjDir(entry.outfiles),
                          InSubjDir(entry.infiles)) THEN "fresh"
    ELSE "stale"

\* cmdline lines 168-185: the branch the loop body takes for one entry
\*   "skip"   noflag in cmd: continue
\*   "forced" flag in cmd: no_run = False, continue
\*   "raise"  check_depends raises OSError
\*   "fresh"  check_depends is true: flags.append(noflag)
\*   "stale"  otherwise: flags.append(flag) if steps are given, no_run = False
Decide(c, disk, entry) ==
    IF InCmd(NoFlag(entry.step), c) THEN "skip"
    ELSE IF InCmd(Flag(entry.step), c) THEN "forced"
    ELSE IF check_depends_raises(disk, InSubjDir(entry.outfiles),
                                 InSubjDir(entry.infiles)) THEN "raise"
    ELSE IF check_depends(disk, InSubjDir(entry.outfiles),
                          InSubjDir(entry.infiles)) THEN "fresh"
    ELSE "stale"

\* cmdline lines 168-185: the loop body for one entry that took branch d
Body(inp, acc, entry, d) ==
    [ no_run  |-> IF d \in {"forced", "stale"} THEN FALSE ELSE acc.no_run,
      flags   |-> IF d = "fresh" THEN Append(acc.flags, NoFlag(entry.step))
                  ELSE IF d = "stale"
                  THEN acc.flags \o StaleFlags(inp, entry.step)
                  ELSE acc.flags,
      decided |-> Append(acc.decided, d),
      raised  |-> d = "raise" ]

\* cmdline lines 165-185: the loop over steps, from the accumulator acc
RECURSIVE Scan(_, _, _, _, _)
Scan(inp, c, disk, todo, acc) ==
    IF todo = <<>> \/ acc.raised THEN acc
    ELSE Scan(inp, c, disk, Tail(todo),
              Body(inp, acc, Head(todo), Decide(c, disk, Head(todo))))

ScanStart == [no_run |-> TRUE, flags |-> <<>>, decided |-> <<>>, raised |-> FALSE]

Placeholder == "echo recon-all: nothing to do"

\* cmdline line 191: cmd += " " + " ".join(flags)
Resumed(c, fl) == c \o " " \o join(" ", fl)

\* NotResuming gone wrong: the call falls through to line 191
NotResuming_FallThrough(c) == Resumed(c, <<>>)

\* cmdline line 130: `return cmd` when not resuming
NotResuming(c) == c

\* cmdline lines 187-189: the no-op placeholder is returned
NothingToDo(noRun, forceRun) == noRun /\ ~forceRun

(* ------------------------------- CALabel ------------------------------ *)

\* the number of probability maps: range(3)
NumProbs == 3

\* the field width of the index: {i:03d}
IndexWidth == 3

\* one decimal digit
Digit(d) == SubSeq("0123456789", d + 1, d + 1)

\* str(n) for n >= 0
RECURSIVE Decimal(_)
Decimal(n) == IF n < 10 THEN Digit(n) ELSE Decimal(n \div 10) \o Digit(n % 10)

\* s padded on the left with "0" to width w
RECURSIVE ZeroPad(_, _)
ZeroPad(s, w) == IF Len(s) >= w THEN s ELSE ZeroPad("0" \o s, w)

\* Index gone wrong: the index is not padded
Index_Unpadded(i) == Decimal(i)

\* f"{i:03d}"
Index(i) == ZeroPad(Decimal(i), IndexWidth)

\* path.split("/")
RECURSIVE split(_, _)
split(path, word) ==
    IF path = "" THEN << word >>
    ELSE IF SubSeq(path, 1, 1) = "/"
         THEN << word >> \o split(SubSeq(path, 2, Len(path)), "")
         ELSE split(SubSeq(path, 2, Len(path)), word \o SubSeq(path, 1, 1))

\* posixpath.normpath: the loop over the components
RECURSIVE new_comps(_, _, _)
new_comps(comps, initial_slashes, acc) ==
    IF comps = <<>> THEN acc
    ELSE LET comp == Head(comps) IN
         IF comp \in { "", "." } THEN new_comps(Tail(comps), initial_slashes, acc)
         ELSE IF \/ comp # ".."
                 \/ (initial_slashes = 0 /\ acc = <<>>)
                 \/ (acc # <<>> /\ acc[Len(acc)] = "..")
         THEN new_comps(Tail(comps), initial_slashes, Append(acc, comp))
         ELSE IF acc # <<>>
         THEN new_comps(Tail(comps), initial_slashes, SubSeq(acc, 1, Len(acc) - 1))
         ELSE new_comps(Tail(comps), initial_slashes, acc)

\* posixpath.normpath
normpath(path) ==
    IF path = "" THEN "."
    ELSE LET initial_slashes ==
                 IF ~startswith(path, "/") THEN 0
                 ELSE IF startswith(path, "//") /\ ~startswith(path, "///")
                 THEN 2 ELSE 1
             body == join("/", new_comps(split(path, ""), initial_slashes, <<>>))
             out == (IF initial_slashes = 2 THEN "//"
                     ELSE IF initial_slashes = 1 THEN "/" ELSE "") \o body
         IN IF out = "" THEN "." ELSE out

\* os.path.abspath in the working directory wd
abspath(wd, path) ==
    normpath(IF startswith(path, "/") THEN path ELSE path_join(wd, path))

\* fs.CALabel._list_outputs (super()._list_outputs()): the base listing
BaseOutputs(wd, inp) == [ out_file |-> abspath(wd, inp.out_file) ]

\* lines 243-246: the three probability maps of prefix write_probs
LabelProbabilities(wd, inp) ==
    [ k \in 1..NumProbs |->
        abspath(wd, inp.write_probs \o Index(k - 1) \o ".mgz") ]

\* CALabel._list_outputs, lines 240-247
ListOutputs(wd, inp) ==
    IF isdefined(inp.write_probs)
    THEN ("label_probabilities" :> LabelProbabilities(wd, inp))
         @@ BaseOutputs(wd, inp)
    ELSE BaseOutputs(wd, inp)

\* _CALabelInputSpec.write_probs: the prefixes that are enumerated
Prefixes == { "posterior", "", "a", "probs/p", "./p", "../up/p", "/tmp/out/post" }

OutFiles == { "aseg.auto_noCCseg.mgz", "out/aseg.mgz", "/data/aseg.mgz" }

WorkDirs == { "/work", "/", "/home/user/run" }

CALabelInputs ==
    { [directive |-> Undefined, steps |-> <<>>, hemi |-> Undefined,
       flags |-> <<>>, expert |-> FALSE, write_probs |-> w, out_file |-> o] :
        w \in Prefixes \cup {Undefined}, o \in OutFiles }

InitReconAll ==
    /\ iface = "ReconAll"
    /\ mtime \in DiskStates
    /\ mri_dir \in MriDirs(mtime)
    /\ inputs \in ReconAllInputs
    /\ force_run \in BOOLEAN
    /\ cwd = "/work"

InitCALabel ==
    /\ iface = "CALabel"
    /\ mtime = NoDisk
    /\ mri_dir = FALSE
    /\ inputs \in CALabelInputs
    /\ force_run = FALSE
    /\ cwd \in WorkDirs

Init ==
    /\ (InitReconAll \/ InitCALabel)
    /\ pc = "call"
    /\ cmd = ""
    /\ steps = <<>>
    /\ no_run = TRUE
    /\ flags = <<>>
    /\ decided = <<>>
    /\ ret = ""
    /\ outputs = <<>>

(* ------------------------------ actions ------------------------------- *)

\* ReconAll.cmdline, lines 123-130: not resuming, the base command line
CmdlineFirstRun ==
    /\ iface = "ReconAll" /\ pc = "call"
    /\ ~_is_resuming(mri_dir)
    /\ cmd' = Cmd(inputs)
    /\ ret' = NotResuming(cmd')
    /\ pc' = "done"
    /\ UNCHANGED << iface, inputs, force_run, mtime, mri_dir, cwd, steps,
                    no_run, flags, decided, outputs >>

\* ReconAll.cmdline, lines 123-193: resuming
CmdlineResume ==
    /\ iface = "ReconAll" /\ pc = "call"
    /\ _is_resuming(mri_dir)
    /\ cmd' = Cmd(inputs)
    /\ steps' = SelectSteps(inputs)
    /\ \E acc \in { Scan(inputs, cmd', mtime, steps', ScanStart) } :
        /\ no_run' = acc.no_run
        /\ flags' = acc.flags
        /\ decided' = acc.decided
        /\ IF acc.raised
           THEN pc' = "raised" /\ ret' = ""
           ELSE /\ pc' = "done"
                /\ ret' = IF NothingToDo(acc.no_run, force_run)
                          THEN Placeholder
                          ELSE Resumed(cmd', acc.flags)
    /\ UNCHANGED << iface, inputs, force_run, mtime, mri_dir, cwd, outputs >>

\* CALabel._list_outputs
ListOutputsCall ==
    /\ iface = "CALabel" /\ pc = "call"
    /\ outputs' = ListOutputs(cwd, inputs)
    /\ pc' = "done"
    /\ UNCHANGED << iface, inputs, force_run, mtime, mri_dir, cwd, cmd, steps,
                    no_run, flags, decided, ret >>

Next == CmdlineFirstRun \/ CmdlineResume \/ ListOutputsCall

Spec == Init /\ [][Next]_vars

(* ---------------------- what a call is observed by -------------------- *)

\* a ReconAll.cmdline call that resumed and returned a command
ResumedDone == iface = "ReconAll" /\ pc = "done" /\ mri_dir

\* a ReconAll.cmdline call that resumed and got as far as the step selection
ResumedCall == iface = "ReconAll" /\ pc \in {"done", "raised"} /\ mri_dir

DirectiveMode == isdefined(inputs.directive) /\ inputs.steps = <<>>

ExplicitMode == ~isdefined(inputs.directive) /\ inputs.steps # <<>>

\* the words of a text, separated by spaces
RECURSIVE Words(_, _)
Words(text, word) ==
    IF text = "" THEN (IF word = "" THEN <<>> ELSE << word >>)
    ELSE IF SubSeq(text, 1, 1) = " "
         THEN (IF word = "" THEN <<>> ELSE << word >>)
              \o Words(SubSeq(text, 2, Len(text)), "")
         ELSE Words(SubSeq(text, 2, Len(text)), word \o SubSeq(text, 1, 1))

\* the text that the returned command has after the base command line
AppendedText ==
    IF startswith(ret, cmd) THEN SubSeq(ret, Len(cmd) + 1, Len(ret)) ELSE ""

\* the flags appended to the base command line in the returned command
Appended == Words(AppendedText, "")

Count(list, x) == Cardinality({ i \in 1..Len(list) : list[i] = x })

\* the files of an entry, on disk
Outs(e) == { path_join(subj_dir, e.outfiles[i]) : i \in 1..Len(e.outfiles) }

Ins(e) == { path_join(subj_dir, e.infiles[i]) : i \in 1..Len(e.infiles) }

\* every output file exists and is newer than every input file
FreshEntry(e) ==
    /\ \A o \in Outs(e) : mtime[o] > 0
    /\ \A i \in Ins(e) : mtime[i] > 0
    /\ \A o \in Outs(e), i \in Ins(e) : mtime[o] > mtime[i]

OutputMissing(e) == \E o \in Outs(e) : mtime[o] = 0

\* an output is missing, or all exist and one is not newer than an input
StaleEntry(e) ==
    \/ OutputMissing(e)
    \/ /\ \A i \in Ins(e) : mtime[i] > 0
       /\ \E o \in Outs(e), i \in Ins(e) : mtime[o] <= mtime[i]

\* the user passed this flag in inputs.flags
UserGave(f) == f \in Range(inputs.flags)

\* the text -X or -noX of step X occurs in the base command line
InBase(X) == InCmd(Flag(X), cmd) \/ InCmd(NoFlag(X), cmd)

\* the fresh entries of the resolved sequence named X
FreshEntries(X) ==
    { k \in 1..Len(steps) : steps[k].step = X /\ FreshEntry(steps[k]) }

\* the stale entries of the resolved sequence named X
StaleEntries(X) ==
    { k \in 1..Len(steps) : steps[k].step = X /\ StaleEntry(steps[k]) }

(* ------------------------------- claims ------------------------------- *)

\* C1 as stated: in a resumed call, for every step X of the resolved sequence
\* that the user names with neither -X nor -noX: if X's outputs all exist and
\* are newer than its inputs the returned command has an appended -noX, and
\* if an output of X is missing no -noX is appended.
C1_Original ==
    ResumedDone =>
        \A k \in 1..Len(steps) :
            LET X == steps[k].step IN
            (~UserGave(Flag(X)) /\ ~UserGave(NoFlag(X))) =>
                /\ FreshEntry(steps[k]) => InList(NoFlag(X), Appended)
                /\ OutputMissing(steps[k]) => ~InList(NoFlag(X), Appended)

\* C1 amended: when a resumed call returns the real command line, each step
\* name X of the resolved sequence has one appended -noX per entry named X
\* (one per hemisphere for a per-hemisphere step) whose outputs all exist and
\* are newer than its inputs, provided the text -X or -noX occurs nowhere in
\* the base command line (be it inside another flag, as -normalization in
\* -normalization2, or inside the directive flag, as -inflate1 in
\* -autorecon2-inflate1), and none otherwise: an entry with a missing output
\* appends none. The no-op placeholder carries no flag.
C1_NoFlagPerFreshEntry ==
    ResumedDone =>
        \A appended \in { Appended } :
            IF ret = Placeholder THEN appended = <<>>
            ELSE \A k \in 1..Len(steps) :
                    LET X == steps[k].step IN
                    /\ Count(appended, NoFlag(X))
                           = IF InBase(X) THEN 0
                             ELSE Cardinality(FreshEntries(X))
                    /\ (~InBase(X) /\ FreshEntry(steps[k]))
                           => InList(NoFlag(X), appended)

\* C1 witness: a returned command with an appended -noX for a fresh entry,
\* while another entry not named in the base command line lacks an output
C1_Witness ==
    /\ ResumedDone /\ ret # Placeholder
    /\ \E k, j \in 1..Len(steps) :
          /\ ~InBase(steps[k].step) /\ FreshEntry(steps[k])
          /\ InList(NoFlag(steps[k].step), Appended)
          /\ ~InBase(steps[j].step) /\ OutputMissing(steps[j])
          /\ steps[j].step # steps[k].step
          /\ ~InList(NoFlag(steps[j].step), Appended)

\* C2: in a resumed call with force_run false, if the base command line
\* contains the -no<step> flag of every step of the resolved sequence, the
\* call returns the no-op placeholder, whatever is on disk.
C2_AllSkippedIsNoOp ==
    (ResumedCall /\ ~force_run
        /\ \A k \in 1..Len(steps) : InCmd(NoFlag(steps[k].step), cmd))
    => (pc = "done" /\ ret = Placeholder)

\* C2 witness: every step of a non-empty sequence is skipped by a flag of
\* the base command line although one of its outputs is missing
C2_Witness ==
    /\ ResumedDone /\ ~force_run /\ steps # <<>>
    /\ (\A k \in 1..Len(steps) : InCmd(NoFlag(steps[k].step), cmd))
    /\ (\E j \in 1..Len(steps) : OutputMissing(steps[j]))
    /\ ret = Placeholder

\* the scenario of C3: directive autorecon1, no per-step flag in the base
\* command line, every output of every autorecon1 step missing
C3_Scenario ==
    /\ ResumedDone
    /\ inputs.directive = "autorecon1"
    /\ inputs.flags = <<>>
    /\ \A k \in 1..Len(_autorecon1_steps) : \A o \in Outs(_autorecon1_steps[k]) :
          mtime[o] = 0

\* C3 as stated: in the scenario every autorecon1 step needs to run, the
\* placeholder is not returned, and the returned command equals the base
\* command line with nothing added.
C3_Original ==
    C3_Scenario =>
        /\ decided = [k \in 1..Len(_autorecon1_steps) |-> "stale"]
        /\ ret # Placeholder
        /\ ret = cmd

\* C3 amended: in the scenario every autorecon1 step needs to run, the
\* placeholder is not returned, and the returned command is the base command
\* line followed by one space: no flag is added.
C3_BasePlusSpace ==
    C3_Scenario =>
        /\ decided = [k \in 1..Len(_autorecon1_steps) |-> "stale"]
        /\ ~no_run
        /\ ret # Placeholder
        /\ ret = cmd \o " "
        /\ Appended = <<>>

\* C3 witness: the scenario, with the real command returned
C3_Witness == C3_Scenario /\ ~force_run /\ ret = cmd \o " "

\* the positions of the master step list whose step the caller requested
Requested == { k \in 1..Len(_steps) : _steps[k].step \in Range(inputs.steps) }

\* the j-th smallest element of a set of numbers
Nth(S, j) == CHOOSE k \in S : Cardinality({ m \in S : m <= k }) = j

\* C4 as stated: with an explicit step list and no directive, the resolved
\* sequence names exactly the requested steps (none missing, none extra,
\* none twice), in master-list order.
C4_Original ==
    (ResumedCall /\ ExplicitMode) =>
        /\ Range(Names(steps)) = Range(inputs.steps)
        /\ NoRepeat(Names(steps))
        /\ \A i, j \in 1..Len(steps) :
              i < j => \E a, b \in 1..Len(_steps) :
                          a < b /\ _steps[a] = steps[i] /\ _steps[b] = steps[j]

\* C4 amended: with an explicit step list and no directive, the resolved
\* sequence is the master step list restricted to the entries whose step is
\* requested, in master-list order whatever the order of the request: no
\* step that was not requested is in it, a requested per-hemisphere step is
\* in it once per hemisphere, and a requested step that the master list
\* lacks is not in it.
C4_MasterListFiltered ==
    (ResumedCall /\ ExplicitMode) =>
        /\ Len(steps) = Cardinality(Requested)
        /\ \A j \in 1..Len(steps) : steps[j] = _steps[Nth(Requested, j)]
        /\ Range(Names(steps)) = Range(inputs.steps) \cap Range(Names(_steps))

\* C4 witness: two steps requested against the master order, one of them
\* per-hemisphere, resolved in master order with one entry per hemisphere
C4_Witness ==
    /\ ResumedCall /\ ExplicitMode
    /\ inputs.steps = << "inflate1", "normalization" >>
    /\ Names(steps) = << "normalization", "inflate1", "inflate1" >>
    /\ steps[2] # steps[3]

\* C5: for each directive with a fixed step table, the resolved sequence of
\* a resumed call is that table, in the table's order, whatever the
\* hemisphere and the files on disk.
C5_FixedTables ==
    ResumedCall =>
        /\ inputs.directive = "autorecon1" => steps = _autorecon1_steps
        /\ inputs.directive = "autorecon2-volonly"
              => steps = _autorecon2_volonly_steps
        /\ inputs.directive = "autorecon2-perhemi"
              => steps = _autorecon2_perhemi_steps
        /\ inputs.directive = "autorecon3" => steps = _autorecon3_steps

\* C5 witness: a fixed-table directive with a hemisphere set, and a
\* different fixed-table directive
C5_Witness ==
    /\ ResumedCall
    /\ inputs.directive = "autorecon2-perhemi" /\ inputs.hemi = "lh"
    /\ steps = _autorecon2_perhemi_steps
    /\ Len(steps) > 1
    /\ \E o \in Outs(steps[1]) : mtime[o] > 0

\* C6: CALabel._list_outputs with write_probs set to prefix P returns the
\* base listing plus label_probabilities = the absolute paths of P000.mgz,
\* P001.mgz, P002.mgz in that order, the other keys unchanged; with
\* write_probs unset it returns the base listing.
C6_LabelProbabilities ==
    (iface = "CALabel" /\ pc = "done") =>
        IF isdefined(inputs.write_probs)
        THEN /\ DOMAIN outputs = { "out_file", "label_probabilities" }
             /\ outputs["label_probabilities"] =
                    << abspath(cwd, inputs.write_probs \o "000.mgz"),
                       abspath(cwd, inputs.write_probs \o "001.mgz"),
                       abspath(cwd, inputs.write_probs \o "002.mgz") >>
             /\ outputs["out_file"] = BaseOutputs(cwd, inputs)["out_file"]
        ELSE outputs = BaseOutputs(cwd, inputs)

\* C6 witness: the listing of the class's example, prefix "posterior"
C6_Witness ==
    /\ iface = "CALabel" /\ pc = "done"
    /\ inputs.write_probs = "posterior" /\ cwd = "/work"
    /\ outputs["label_probabilities"] =
           << "/work/posterior000.mgz", "/work/posterior001.mgz",
              "/work/posterior002.mgz" >>

\* neither a directive nor an explicit step list is set
NeitherMode == ~isdefined(inputs.directive) /\ inputs.steps = <<>>

\* C7 as stated: with neither a directive nor a step list, a resumed call
\* resolves the full master step list, as for the default directive "all".
C7_Original == (ResumedCall /\ NeitherMode) => steps = _steps

\* C7 amended: with neither a directive nor a step list, a resumed call
\* resolves the empty step sequence: no step is checked for freshness and no
\* flag is appended; the call returns the no-op placeholder unless force_run
\* is set, and then the base command line followed by one space.
C7_NothingResolved ==
    (ResumedCall /\ NeitherMode) =>
        /\ pc = "done"
        /\ steps = <<>> /\ decided = <<>> /\ flags = <<>>
        /\ ret = IF force_run THEN cmd \o " " ELSE Placeholder

\* C7 witness: neither input set, stale files on disk, the placeholder
C7_Witness ==
    /\ ResumedDone /\ NeitherMode /\ ~force_run
    /\ \E k \in 1..Len(_steps) : OutputMissing(_steps[k])
    /\ ret = Placeholder

\* C8: in a resumed call a force flag -<step> is appended only with an
\* explicit step list. With a directive every appended flag is a -no<step>
\* flag and a stale step only marks the run as needed; with an explicit step
\* list every stale entry whose step the base command line does not name
\* (the text -<step> or -no<step> occurs nowhere in it) appends -<step>, and
\* no other -<step> is appended.
C8_ForceFlagOnlyForStepList ==
    ResumedDone =>
        \A appended \in { Appended } :
            /\ ~ExplicitMode =>
                  /\ \A i \in 1..Len(appended) :
                        \E k \in 1..Len(steps) :
                            appended[i] = NoFlag(steps[k].step)
                  /\ \A k \in 1..Len(steps) :
                        (~InBase(steps[k].step) /\ StaleEntry(steps[k]))
                            => (~no_run /\ ret # Placeholder)
            /\ ExplicitMode =>
                  \A k \in 1..Len(steps) :
                      LET X == steps[k].step IN
                      Count(appended, Flag(X))
                          = IF InBase(X) THEN 0
                            ELSE Cardinality(StaleEntries(X))

\* C8 witness: an explicit step list with a stale entry, which is forced,
\* and a fresh entry, which is skipped
C8_Witness ==
    /\ ResumedDone /\ ExplicitMode
    /\ \E k, j \in 1..Len(steps) :
          /\ ~InBase(steps[k].step) /\ StaleEntry(steps[k])
          /\ InList(Flag(steps[k].step), Appended)
          /\ ~InBase(steps[j].step) /\ FreshEntry(steps[j])
          /\ InList(NoFlag(steps[j].step), Appended)

\* C9 as stated: in a resumed call with force_run false, if every step of
\* the resolved sequence is skipped by a -no<step> flag of the base command
\* line or has all outputs newer than all inputs, and the user gave no
\* -<step> force flag, the call returns the no-op placeholder.
C9_Original ==
    (ResumedDone /\ ~force_run
        /\ (\A k \in 1..Len(steps) :
              \/ InCmd(NoFlag(steps[k].step), cmd)
              \/ FreshEntry(steps[k]))
        /\ (\A j \in 1..Len(_steps) : ~UserGave(Flag(_steps[j].step))))
    => ret = Placeholder

\* C10: a call that is not resuming returns the base command line (with the
\* expert flag, if any) unchanged: nothing is appended and the placeholder
\* is not returned, whatever the inputs, force_run and the files on disk.
C10_NotResumingIsBase ==
    (iface = "ReconAll" /\ pc # "call" /\ ~mri_dir) =>
        /\ pc = "done"
        /\ ret = BaseCmdline(inputs) \o _prep_expert_file(inputs)
        /\ ret # Placeholder
        /\ AppendedText = ""

\* C10 witness: not resuming, a step list given, files on disk, force_run
\* unset: the base command line all the same
C10_Witness ==
    /\ iface = "ReconAll" /\ pc = "done" /\ ~mri_dir
    /\ ExplicitMode /\ ~force_run
    /\ \E f \in Files : mtime[f] > 0
    /\ ret = cmd


====
